---- MODULE Spec2Model ----
(***************************************************************************)
(* VariableRefreshRateController (libhwc2.1/libvrr): the controller's      *)
(* fields, its timed event queue, the compositor-facing entry points and   *)
(* the worker thread (threadBody), as a state machine.                     *)
(*                                                                         *)
(* Every entry point runs under mMutex, so it is one atomic action.  The   *)
(* worker is cut where it gives the mutex up: before it locks at the top   *)
(* of an iteration, inside each condition wait, and between the expiry of  *)
(* wait_for and the re-acquisition of the mutex.                           *)
(*                                                                         *)
(* Time is the integer clock `now` (getNowNs); durations are scaled down.  *)
(* The controller is one that was constructed with a panel node path, so   *)
(* mFileNodeWritter is set; the members the constructor does not assign    *)
(* start at false, 0, empty and hwc2_config_t(-1).                         *)
(*                                                                         *)
(* The keys and values of the present statistics (DisplayStatus and        *)
(* DisplayPresentRecord of Statistics/VariableRefreshRateStatistic.h) are  *)
(* exercised by a specification of their own, SpecStatistic.               *)
(***************************************************************************)
EXTENDS Integers, Sequences, FiniteSets

VARIABLES
    mState,                  \* VrrControllerState
    mEnabled,                \* bool
    mThreadExit,             \* bool
    mVrrConfigs,             \* unordered_map<hwc2_config_t, VrrConfig_t>
    mVrrActiveConfig,        \* hwc2_config_t
    mEventQueue,             \* priority_queue<VrrControllerEvent>
    mPendingFramesToInsert,  \* int
    mRecord,                 \* VrrRecord: the two optionals and the present ring
    now,                     \* the clock read by getNowNs()
    pc,                      \* where the worker thread stands
    waitUntil,               \* deadline of the worker's wait_for (0 outside it)
    notified,                \* a notify_all reached the waiting worker
    calls,                   \* how many entry-point calls were made so far
    last,                    \* history: what the last step was and did
    burstCut,                \* history: setEnable(false) cut a burst short
    burstWrites,             \* history: panel writes of the burst under way
    lhs, mid, rhs,           \* three DisplayStatus keys of the statistics
    less,                    \* what operator< and operator== said of them
    record,                  \* a DisplayPresentRecord of the statistics
    added                    \* history: the operands of the last operator+=

vars == <<mState, mEnabled, mThreadExit, mVrrConfigs, mVrrActiveConfig,
          mEventQueue, mPendingFramesToInsert, mRecord, now, pc, waitUntil,
          notified, calls, last, burstCut, burstWrites,
          lhs, mid, rhs, less, record, added>>

\* The variables of the statistics (VariableRefreshRateStatistic.h).
statVars == <<lhs, mid, rhs, less, record, added>>

\* The controller's own fields, without clock, worker position and history.
fields == <<mState, mEnabled, mThreadExit, mVrrConfigs, mVrrActiveConfig,
            mEventQueue, mPendingFramesToInsert, mRecord>>

-----------------------------------------------------------------------------
(* Bounds of the model *)

MaxTime == 4
MaxQueue == 4
MaxCalls == 5

(* Program constants and the small input sets *)

kNumFramesToInsert == 2
\* 500 ms in the program; scaled to the model's clock.
kDefaultWakeUpTimeInPowerSaving == 3
\* hwc2_config_t(-1), the value mVrrActiveConfig holds before any activation.
kNoConfig == -1
\* Capacity of the present-history ring, scaled.
kRingCapacity == 1

\* The ids handed to setActiveVrrConfiguration; no table holds id 2.
ConfigIds == {1, 2}

\* VrrConfig_t: the first has timeout > min frame interval (as the shipping
\* panels do: 30 ms against 8.3 ms), the second the other way round.
VrrConfigValues == { [TimeoutNs |-> 2, minFrameIntervalNs |-> 1],
                     [TimeoutNs |-> 1, minFrameIntervalNs |-> 2] }

\* A value-initialised VrrConfig_t, what unordered_map::operator[] inserts.
DefaultVrrConfig == [TimeoutNs |-> 0, minFrameIntervalNs |-> 0]

EmptyTable == [id \in {} |-> DefaultVrrConfig]

\* The tables setVrrConfigurations may be handed.
ConfigTables == {EmptyTable} \cup { [id \in {1} |-> v] : v \in VrrConfigValues }

Timestamps == {7}
FrameIntervals == {16}

States == {"Disable", "Rendering", "Hibernate"}

kRenderingTimeout == "RenderingTimeout"
kHibernateTimeout == "HibernateTimeout"
kNextFrameInsertion == "NextFrameInsertion"
kNotifyExpectedPresentConfig == "NotifyExpectedPresentConfig"

NoEvent == [type |-> "none", when |-> 0]
NoPresent == [config |-> kNoConfig, time |-> 0, duration |-> 0]

WaitStates == {"waitDisabled", "waitEmpty", "waitFor"}

-----------------------------------------------------------------------------
(* The timed event queue.  std::priority_queue is kept as the sequence of  *)
(* its events by ascending when, events of one instant in posting order;   *)
(* which of several events of the earliest instant top() returns is left   *)
(* open (a binary heap keeps no order among equal keys).                   *)

Count(q, type) == Cardinality({i \in 1..Len(q) : q[i].type = type})

Remove(q, i) == SubSeq(q, 1, i - 1) \o SubSeq(q, i + 1, Len(q))

\* VrrControllerEvent's order: a is popped no later than b.
NotAfter(a, b) == a.when <= b.when

\* Variant: the event goes in front of the queue, whatever its time.
postEvent_Front(q, type, when) == <<[type |-> type, when |-> when]>> \o q

postEvent(q, type, when) ==
    LET event == [type |-> type, when |-> when]
        k == Cardinality({i \in 1..Len(q) : NotAfter(q[i], event)})
    IN  SubSeq(q, 1, k) \o <<event>> \o SubSeq(q, k + 1, Len(q))

\* Variant: the comparison of line 224 inverted.
dropEventLocked_Inverted(q, type) == SelectSeq(q, LAMBDA e : e.type = type)

\* Variant: every event is pushed back, whatever its type.
dropEventLocked_KeepsAll(q, type) == q

dropEventLocked(q, type) == SelectSeq(q, LAMBDA e : e.type # type)

\* Variant: the queue is left as it is.
dropAllEventsLocked_Nothing(q) == q

dropAllEventsLocked(q) == <<>>

\* The loop of lines 238-246: every event is popped and pushed onto a new
\* queue.
RECURSIVE Repush(_, _)
Repush(from, to) ==
    IF from = <<>> THEN to
    ELSE Repush(Tail(from), postEvent(to, Head(from).type, Head(from).when))

\* dumpEventQueueLocked: the queue it leaves behind.
dumpEventQueueLocked(q) == IF q = <<>> THEN q ELSE Repush(q, <<>>)

getNextEventTimeLocked(q) == IF q = <<>> THEN -1 ELSE q[1].when

\* The indices top() may return: any event of the earliest instant, or,
\* when fifo, the first posted of them.
TopChoices(q, fifo) ==
    IF fifo THEN {1} ELSE {i \in 1..Len(q) : NotAfter(q[i], q[1])}

\* mVrrConfigs[id]: operator[] inserts a value-initialised entry for a
\* missing key.
ConfigsAfterLookup(cfgs, id) ==
    [k \in DOMAIN cfgs \cup {id} |-> IF k \in DOMAIN cfgs THEN cfgs[k] ELSE DefaultVrrConfig]

\* mPresentHistory.next() = v
RingPush(ring, v) ==
    IF Len(ring) < kRingCapacity THEN Append(ring, v) ELSE Append(Tail(ring), v)

\* VrrRecord::clear()
RecordClear(rec) ==
    [mNextExpectedPresentTime |-> NoPresent,
     mPendingCurrentPresentTime |-> NoPresent,
     mPresentHistory |-> <<>>]

-----------------------------------------------------------------------------
(* The keys and values of the statistics (VariableRefreshRateStatistic.h) *)

HWC_POWER_MODE_OFF == 0
HWC_POWER_MODE_DOZE == 1
HWC_POWER_MODE_NORMAL == 2
HWC_POWER_MODE_DOZE_SUSPEND == 3

PowerModes == {HWC_POWER_MODE_OFF, HWC_POWER_MODE_DOZE, HWC_POWER_MODE_NORMAL,
               HWC_POWER_MODE_DOZE_SUSPEND}

BrightnessModes == {0, 1}

DisplayStatuses ==
    [mActiveConfigId : ConfigIds, mPowerMode : PowerModes,
     mBrightnessMode : BrightnessModes]

\* A default-constructed DisplayStatus.
DefaultDisplayStatus ==
    [mActiveConfigId |-> kNoConfig, mPowerMode |-> HWC_POWER_MODE_OFF,
     mBrightnessMode |-> 0]

isOff(s) ==
    (s.mPowerMode = HWC_POWER_MODE_OFF) \/ (s.mPowerMode = HWC_POWER_MODE_DOZE_SUSPEND)

\* DisplayStatus::operator==
StatusEqual(s, t) ==
    IF isOff(s) \/ isOff(t)
    THEN isOff(s) = isOff(t)
    ELSE /\ s.mActiveConfigId = t.mActiveConfigId
         /\ s.mPowerMode = t.mPowerMode
         /\ s.mBrightnessMode = t.mBrightnessMode

\* DisplayStatus::operator<
StatusLess(s, t) ==
    IF (isOff(s) \/ isOff(t)) /\ (isOff(s) = isOff(t))
    THEN FALSE
    ELSE IF s.mPowerMode # t.mPowerMode THEN s.mPowerMode < t.mPowerMode
    ELSE IF s.mActiveConfigId # t.mActiveConfigId
         THEN s.mActiveConfigId < t.mActiveConfigId
    ELSE s.mBrightnessMode < t.mBrightnessMode

NoCompare == [done |-> FALSE]

\* The records operator+= is handed.
MaxCount == 2
MaxStamp == 2

DisplayPresentRecords ==
    [mCount : 0..MaxCount, mLastTimeStampNs : 0..MaxStamp, mUpdated : BOOLEAN]

\* A default-constructed DisplayPresentRecord.
DefaultDisplayPresentRecord ==
    [mCount |-> 0, mLastTimeStampNs |-> 0, mUpdated |-> FALSE]

Max(x, y) == IF x < y THEN y ELSE x

\* Variant: the flag is the disjunction of the operands' flags.
RecordPlus_OrFlag(r, other) ==
    [mCount |-> r.mCount + other.mCount,
     mLastTimeStampNs |-> Max(r.mLastTimeStampNs, other.mLastTimeStampNs),
     mUpdated |-> (r.mUpdated \/ other.mUpdated)]

\* DisplayPresentRecord::operator+=
RecordPlus(r, other) ==
    [mCount |-> r.mCount + other.mCount,
     mLastTimeStampNs |-> Max(r.mLastTimeStampNs, other.mLastTimeStampNs),
     mUpdated |-> TRUE]

NoAdd == [done |-> FALSE]

-----------------------------------------------------------------------------
(* History bookkeeping *)

\* last after an entry point `op` ran: ok is FALSE when it returned early,
\* repeat is TRUE when the step before was the same entry point, state is
\* mState before the step; a dispatch adds the event it popped and what
\* became of the panel write ("none": not attempted).
Did(op, ok) == [op |-> op, ok |-> ok, repeat |-> (last.op = op), state |-> mState,
                event |-> NoEvent, write |-> "none"]

\* last after a step no property asks about.
NoStep == [op |-> "none", ok |-> TRUE, repeat |-> FALSE, state |-> "Disable",
           event |-> NoEvent, write |-> "none"]

Quiet == last' = NoStep

\* notify_all: reaches the worker only if it is parked in a wait.
NotifyAll == notified' = (notified \/ pc \in WaitStates)

\* One more entry-point call, within the budget of the model.  burstWrites
\* counts the panel writes since a burst started with a successful write, and
\* is 0 once an entry point was called or a write failed.
Call ==
    /\ calls < MaxCalls
    /\ calls' = calls + 1
    /\ burstWrites' = 0
    /\ UNCHANGED statVars

\* burstCut after an entry point other than setEnable ran.
OtherCall == burstCut' = IF burstCut = "reenabled" THEN "none" ELSE burstCut

-----------------------------------------------------------------------------
Init ==
    /\ mState = "Disable"
    /\ mEnabled = FALSE
    /\ mThreadExit = FALSE
    /\ mVrrConfigs = EmptyTable
    /\ mVrrActiveConfig = kNoConfig
    /\ mEventQueue = <<>>
    /\ mPendingFramesToInsert = 0
    /\ mRecord = RecordClear(0)
    /\ now = 0
    /\ pc = "start"
    /\ waitUntil = 0
    /\ notified = FALSE
    /\ calls = 0
    /\ last = NoStep
    /\ burstCut = "none"
    /\ burstWrites = 0
    /\ lhs = DefaultDisplayStatus
    /\ mid = DefaultDisplayStatus
    /\ rhs = DefaultDisplayStatus
    /\ less = NoCompare
    /\ record = DefaultDisplayPresentRecord
    /\ added = NoAdd

-----------------------------------------------------------------------------
(* Entry points *)

notifyExpectedPresent(timestamp, frameIntervalNs) ==
    /\ Call
    /\ Len(mEventQueue) < MaxQueue
    /\ mRecord' = [mRecord EXCEPT !.mNextExpectedPresentTime =
                       [config |-> mVrrActiveConfig, time |-> timestamp,
                        duration |-> frameIntervalNs]]
    /\ mEventQueue' = postEvent(mEventQueue, kNotifyExpectedPresentConfig, now)
    /\ NotifyAll
    /\ OtherCall
    /\ Quiet
    /\ UNCHANGED <<mState, mEnabled, mThreadExit, mVrrConfigs, mVrrActiveConfig,
                   mPendingFramesToInsert, now, pc, waitUntil>>

reset ==
    /\ Call
    /\ mEventQueue' = dropAllEventsLocked(mEventQueue)
    /\ mRecord' = RecordClear(mRecord)
    /\ OtherCall
    /\ last' = Did("reset", TRUE)
    /\ UNCHANGED <<mState, mEnabled, mThreadExit, mVrrConfigs, mVrrActiveConfig,
                   mPendingFramesToInsert, now, pc, waitUntil, notified>>

\* Lines 103-109: the activation proper.
ActivateLocked(config) ==
    LET cfgs == ConfigsAfterLookup(mVrrConfigs, config)
    IN  /\ mState' = "Rendering"
        /\ mVrrActiveConfig' = config
        /\ mVrrConfigs' = cfgs
        /\ mEventQueue' = postEvent(dropEventLocked(mEventQueue, kRenderingTimeout),
                                    kRenderingTimeout, now + cfgs[config].TimeoutNs)
        /\ Len(mEventQueue') <= MaxQueue
        /\ NotifyAll
        /\ OtherCall
        /\ last' = [Did("setActiveVrrConfiguration", TRUE) EXCEPT !.repeat = FALSE]
        /\ UNCHANGED <<mEnabled, mThreadExit, mPendingFramesToInsert, mRecord,
                       now, pc, waitUntil>>

\* Variant: without the check of lines 99-102.
setActiveVrrConfiguration_NoCheck(config) == Call /\ ActivateLocked(config)

setActiveVrrConfiguration(config) ==
    /\ Call
    /\ IF config \notin DOMAIN mVrrConfigs
       THEN /\ last' = [Did("setActiveVrrConfiguration", FALSE) EXCEPT !.repeat = FALSE]
            /\ OtherCall
            /\ UNCHANGED <<fields, now, pc, waitUntil, notified>>
       ELSE ActivateLocked(config)

setEnable(isEnabled) ==
    /\ Call
    /\ IF mEnabled = isEnabled
       THEN /\ last' = [Did("setEnable", FALSE) EXCEPT !.repeat = FALSE]
            /\ UNCHANGED <<fields, now, pc, waitUntil, notified, burstCut>>
       ELSE /\ mEnabled' = isEnabled
            /\ mEventQueue' = IF isEnabled THEN mEventQueue
                                           ELSE dropAllEventsLocked(mEventQueue)
            /\ NotifyAll
            /\ burstCut' = IF isEnabled
                           THEN (IF burstCut = "disabled" THEN "reenabled" ELSE "none")
                           ELSE (IF /\ mState = "Hibernate"
                                    /\ Count(mEventQueue, kNextFrameInsertion) > 0
                                 THEN "disabled" ELSE "none")
            /\ last' = [Did("setEnable", TRUE) EXCEPT !.repeat = FALSE]
            /\ UNCHANGED <<mState, mThreadExit, mVrrConfigs, mVrrActiveConfig,
                           mPendingFramesToInsert, mRecord, now, pc, waitUntil>>

setVrrConfigurations(configs) ==
    /\ Call
    /\ mVrrConfigs' = configs
    /\ OtherCall
    /\ Quiet
    /\ UNCHANGED <<mState, mEnabled, mThreadExit, mVrrActiveConfig, mEventQueue,
                   mPendingFramesToInsert, mRecord, now, pc, waitUntil, notified>>

stopThread ==
    /\ Call
    /\ mThreadExit' = TRUE
    /\ mEnabled' = FALSE
    /\ mState' = "Disable"
    /\ NotifyAll
    /\ burstCut' = "none"
    /\ last' = [Did("stopThread", TRUE) EXCEPT !.repeat = FALSE]
    /\ UNCHANGED <<mVrrConfigs, mVrrActiveConfig, mEventQueue, mPendingFramesToInsert,
                   mRecord, now, pc, waitUntil>>

\* Lines 157-174: the present of the pending descriptor.
PresentLocked ==
    LET wasHibernate == mState = "Hibernate"
        q1 == IF wasHibernate THEN dropEventLocked(mEventQueue, kHibernateTimeout)
                              ELSE mEventQueue
        q2 == dropEventLocked(dropEventLocked(q1, kRenderingTimeout),
                              kNextFrameInsertion)
        cfgs == ConfigsAfterLookup(mVrrConfigs, mVrrActiveConfig)
    IN  /\ mRecord' = [mRecord EXCEPT
                !.mPresentHistory = RingPush(@, mRecord.mPendingCurrentPresentTime),
                !.mPendingCurrentPresentTime = NoPresent]
        /\ mState' = IF wasHibernate THEN "Rendering" ELSE mState
        /\ mVrrConfigs' = cfgs
        /\ mEventQueue' = postEvent(q2, kRenderingTimeout,
                                    now + cfgs[mVrrActiveConfig].TimeoutNs)
        /\ Len(mEventQueue') <= MaxQueue
        /\ NotifyAll
        /\ OtherCall
        /\ last' = [Did("onPresent", TRUE) EXCEPT !.repeat = FALSE]
        /\ UNCHANGED <<mEnabled, mThreadExit, mVrrActiveConfig,
                       mPendingFramesToInsert, now, pc, waitUntil>>

\* Variant: without the check of lines 152-155.
onPresent_NoCheck == Call /\ PresentLocked

onPresent ==
    /\ Call
    /\ IF mRecord.mPendingCurrentPresentTime = NoPresent
       THEN /\ last' = [Did("onPresent", FALSE) EXCEPT !.repeat = FALSE]
            /\ OtherCall
            /\ UNCHANGED <<fields, now, pc, waitUntil, notified>>
       ELSE PresentLocked

setExpectedPresentTime(timestampNanos, frameIntervalNs) ==
    /\ Call
    /\ mRecord' = [mRecord EXCEPT !.mPendingCurrentPresentTime =
                       [config |-> mVrrActiveConfig, time |-> timestampNanos,
                        duration |-> frameIntervalNs]]
    /\ OtherCall
    /\ Quiet
    /\ UNCHANGED <<mState, mEnabled, mThreadExit, mVrrConfigs, mVrrActiveConfig,
                   mEventQueue, mPendingFramesToInsert, now, pc, waitUntil, notified>>

\* A dump of the controller, taken under the mutex.
dumpEventQueue ==
    /\ Call
    /\ mEventQueue' = dumpEventQueueLocked(mEventQueue)
    /\ OtherCall
    /\ last' = [Did("dumpEventQueue", TRUE) EXCEPT !.repeat = FALSE]
    /\ UNCHANGED <<mState, mEnabled, mThreadExit, mVrrConfigs, mVrrActiveConfig,
                   mPendingFramesToInsert, mRecord, now, pc, waitUntil, notified>>

-----------------------------------------------------------------------------
(* Handlers run by the worker under the mutex.  Each takes and returns the *)
(* part of the controller it touches:                                      *)
(*   [queue, pending, configs, record, write]                              *)
(* write is "none" (no panel write attempted), "ok" or "fail".             *)

\* Variant: without the check of lines 194-198.
doFrameInsertionLocked_NoGuard(c, writeOk) ==
    IF ~writeOk THEN [c EXCEPT !.write = "fail"]
    ELSE LET p == c.pending - 1
             cfgs == ConfigsAfterLookup(c.configs, mVrrActiveConfig)
         IN  IF p > 0
             THEN [c EXCEPT !.pending = p, !.write = "ok", !.configs = cfgs,
                            !.queue = postEvent(c.queue, kNextFrameInsertion,
                                          now + cfgs[mVrrActiveConfig].minFrameIntervalNs)]
             ELSE [c EXCEPT !.pending = p, !.write = "ok"]

\* Variant: a failed write takes a frame off the counter all the same.
doFrameInsertionLocked_CountsFailure(c, writeOk) ==
    IF c.pending <= 0 THEN c
    ELSE IF ~writeOk THEN [c EXCEPT !.pending = c.pending - 1, !.write = "fail"]
    ELSE LET p == c.pending - 1
             cfgs == ConfigsAfterLookup(c.configs, mVrrActiveConfig)
         IN  IF p > 0
             THEN [c EXCEPT !.pending = p, !.write = "ok", !.configs = cfgs,
                            !.queue = postEvent(c.queue, kNextFrameInsertion,
                                          now + cfgs[mVrrActiveConfig].minFrameIntervalNs)]
             ELSE [c EXCEPT !.pending = p, !.write = "ok"]

\* doFrameInsertionLocked(): writeOk is the result of WriteCommandString.
doFrameInsertionLocked(c, writeOk) ==
    IF c.pending <= 0 THEN c
    ELSE IF ~writeOk THEN [c EXCEPT !.write = "fail"]
    ELSE LET p == c.pending - 1
             cfgs == ConfigsAfterLookup(c.configs, mVrrActiveConfig)
         IN  IF p > 0
             THEN [c EXCEPT !.pending = p, !.write = "ok", !.configs = cfgs,
                            !.queue = postEvent(c.queue, kNextFrameInsertion,
                                          now + cfgs[mVrrActiveConfig].minFrameIntervalNs)]
             ELSE [c EXCEPT !.pending = p, !.write = "ok"]

\* doFrameInsertionLocked(int frames)
doFrameInsertionLockedFrames(c, frames, writeOk) ==
    doFrameInsertionLocked([c EXCEPT !.pending = frames], writeOk)

handleCadenceChange(c) ==
    IF c.record.mNextExpectedPresentTime = NoPresent THEN c
    ELSE [c EXCEPT !.record.mNextExpectedPresentTime = NoPresent]

handleResume(c) ==
    IF c.record.mNextExpectedPresentTime = NoPresent THEN c
    ELSE [c EXCEPT !.record.mNextExpectedPresentTime = NoPresent]

\* Variant: a burst of one frame.
handleHibernate_OneFrame(c, writeOk) ==
    LET d == doFrameInsertionLockedFrames(c, 1, writeOk)
    IN  [d EXCEPT !.queue = postEvent(d.queue, kHibernateTimeout,
                                      now + kDefaultWakeUpTimeInPowerSaving)]

handleHibernate(c, writeOk) ==
    LET d == doFrameInsertionLockedFrames(c, kNumFramesToInsert, writeOk)
    IN  [d EXCEPT !.queue = postEvent(d.queue, kHibernateTimeout,
                                      now + kDefaultWakeUpTimeInPowerSaving)]

handleStayHibernate(c) ==
    [c EXCEPT !.queue = postEvent(c.queue, kHibernateTimeout,
                                  now + kDefaultWakeUpTimeInPowerSaving)]

\* Variant: the resume of line 383 sets kHibernate.
HandleEvent_ResumeHibernates(state, event, c, writeOk) ==
    IF state = "Rendering"
    THEN CASE event.type = kRenderingTimeout ->
                  [ctx |-> handleHibernate(c, writeOk), state |-> "Hibernate"]
           [] event.type = kNotifyExpectedPresentConfig ->
                  [ctx |-> handleCadenceChange(c), state |-> state]
           [] OTHER -> [ctx |-> c, state |-> state]
    ELSE CASE event.type = kHibernateTimeout ->
                  [ctx |-> handleStayHibernate(c), state |-> state]
           [] event.type = kNotifyExpectedPresentConfig ->
                  [ctx |-> handleResume(c), state |-> "Hibernate"]
           [] event.type = kNextFrameInsertion ->
                  [ctx |-> doFrameInsertionLocked(c, writeOk), state |-> state]
           [] OTHER -> [ctx |-> c, state |-> state]

\* The (state, event) switch of threadBody: the handler's result and the
\* state after it.
HandleEvent(state, event, c, writeOk) ==
    IF state = "Rendering"
    THEN CASE event.type = kRenderingTimeout ->
                  [ctx |-> handleHibernate(c, writeOk), state |-> "Hibernate"]
           [] event.type = kNotifyExpectedPresentConfig ->
                  [ctx |-> handleCadenceChange(c), state |-> state]
           [] OTHER -> [ctx |-> c, state |-> state]
    ELSE CASE event.type = kHibernateTimeout ->
                  [ctx |-> handleStayHibernate(c), state |-> state]
           [] event.type = kNotifyExpectedPresentConfig ->
                  [ctx |-> handleResume(c), state |-> "Rendering"]
           [] event.type = kNextFrameInsertion ->
                  [ctx |-> doFrameInsertionLocked(c, writeOk), state |-> state]
           [] OTHER -> [ctx |-> c, state |-> state]

-----------------------------------------------------------------------------
(* The worker thread *)

\* Lines 338-393: the empty check, top(), pop() and the dispatch.
PopAndDispatch(fifo) ==
    IF mEventQueue = <<>>
    THEN /\ pc' = "exited"
         /\ waitUntil' = 0
         /\ notified' = FALSE
         /\ last' = [Did("breakEmpty", TRUE) EXCEPT !.repeat = FALSE]
         /\ UNCHANGED <<fields, now, calls, burstCut, burstWrites, statVars>>
    ELSE \E i \in TopChoices(mEventQueue, fifo), writeOk \in BOOLEAN :
            LET event == mEventQueue[i]
                c == [queue |-> Remove(mEventQueue, i),
                      pending |-> mPendingFramesToInsert,
                      configs |-> mVrrConfigs,
                      record |-> mRecord,
                      write |-> "none"]
                r == HandleEvent(mState, event, c, writeOk)
            IN  /\ mEventQueue' = r.ctx.queue
                /\ mPendingFramesToInsert' = r.ctx.pending
                /\ mVrrConfigs' = r.ctx.configs
                /\ mRecord' = r.ctx.record
                /\ mState' = r.state
                /\ pc' = "loop"
                /\ waitUntil' = 0
                /\ notified' = FALSE
                /\ last' = [Did("dispatch", TRUE) EXCEPT !.repeat = FALSE,
                                                          !.event = event,
                                                          !.write = r.ctx.write]
                /\ burstWrites' =
                       IF mState = "Rendering" /\ event.type = kRenderingTimeout
                       THEN (IF r.ctx.write = "ok" THEN 1 ELSE 0)
                       ELSE IF r.ctx.write = "ok"
                       THEN (IF burstWrites > 0 THEN burstWrites + 1 ELSE 0)
                       ELSE IF r.ctx.write = "fail" THEN 0 ELSE burstWrites
                /\ UNCHANGED <<mEnabled, mThreadExit, mVrrActiveConfig, now, calls, burstCut,
                               statVars>>

\* Lines 329-337: the peek and the timed wait.
PeekAndWait(fifo) ==
    IF getNextEventTimeLocked(mEventQueue) > now
    THEN /\ pc' = "waitFor"
         /\ waitUntil' = getNextEventTimeLocked(mEventQueue)
         /\ notified' = FALSE
         /\ Quiet
         /\ UNCHANGED <<fields, now, calls, burstCut, burstWrites, statVars>>
    ELSE PopAndDispatch(fifo)

\* Lines 326-328: park on an empty queue.
CheckQueue(fifo) ==
    IF mEventQueue = <<>>
    THEN /\ pc' = "waitEmpty"
         /\ waitUntil' = 0
         /\ notified' = FALSE
         /\ Quiet
         /\ UNCHANGED <<fields, now, calls, burstCut, burstWrites, statVars>>
    ELSE PeekAndWait(fifo)

\* Lines 314-318: sched_setscheduler may be refused.
WorkerStart ==
    /\ pc = "start"
    /\ \E ok \in BOOLEAN : pc' = IF ok THEN "loop" ELSE "exited"
    /\ Quiet
    /\ UNCHANGED <<fields, now, waitUntil, notified, calls, burstCut, burstWrites, statVars>>

\* Lines 321-324: the top of an iteration.
WorkerLoop(fifo) ==
    /\ pc = "loop"
    /\ IF mThreadExit
       THEN /\ pc' = "exited"
            /\ Quiet
            /\ UNCHANGED <<fields, now, waitUntil, notified, calls, burstCut, burstWrites, statVars>>
       ELSE IF ~mEnabled
       THEN /\ pc' = "waitDisabled"
            /\ notified' = FALSE
            /\ Quiet
            /\ UNCHANGED <<fields, now, waitUntil, calls, burstCut, burstWrites, statVars>>
       ELSE CheckQueue(fifo)

\* Line 323 returns, line 324.
WorkerWakeDisabled(fifo) ==
    /\ pc = "waitDisabled"
    /\ notified
    /\ IF ~mEnabled
       THEN /\ pc' = "loop"
            /\ notified' = FALSE
            /\ Quiet
            /\ UNCHANGED <<fields, now, waitUntil, calls, burstCut, burstWrites, statVars>>
       ELSE CheckQueue(fifo)

\* Line 327 returns.
WorkerWakeEmpty(fifo) ==
    /\ pc = "waitEmpty"
    /\ notified
    /\ PeekAndWait(fifo)

\* Line 333 returns no_timeout, line 335.
WorkerWakeSignalled ==
    /\ pc = "waitFor"
    /\ notified
    /\ pc' = "loop"
    /\ waitUntil' = 0
    /\ notified' = FALSE
    /\ Quiet
    /\ UNCHANGED <<fields, now, calls, burstCut, burstWrites, statVars>>

\* The deadline of wait_for passes: the worker is off the condition and has
\* yet to re-acquire the mutex.
WorkerTimeout ==
    /\ pc = "waitFor"
    /\ now >= waitUntil
    /\ pc' = "timedOut"
    /\ waitUntil' = 0
    /\ notified' = FALSE
    /\ Quiet
    /\ UNCHANGED <<fields, now, calls, burstCut, burstWrites, statVars>>

\* Line 333 returns timeout, lines 338-393.
WorkerAfterTimeout(fifo) ==
    /\ pc = "timedOut"
    /\ PopAndDispatch(fifo)

\* A condition wait may return without a notify_all (and the notify_all of
\* an entry point comes after it unlocked, so may reach a wait entered since).
SpuriousWakeup ==
    /\ pc \in WaitStates
    /\ ~notified
    /\ notified' = TRUE
    /\ Quiet
    /\ UNCHANGED <<fields, now, pc, waitUntil, calls, burstCut, burstWrites, statVars>>

\* The clock runs up to MaxTime, and past it for as long as a worker that was
\* told to stop still sits in a wait_for (so that its deadline comes).
Tick ==
    /\ \/ now < MaxTime
       \/ mThreadExit /\ pc = "waitFor" /\ now < waitUntil
    /\ now' = now + 1
    /\ Quiet
    /\ UNCHANGED <<fields, pc, waitUntil, notified, calls, burstCut, burstWrites, statVars>>

-----------------------------------------------------------------------------
\* The entry points, called from other threads.
Calls ==
    \/ \E t \in Timestamps, d \in FrameIntervals : notifyExpectedPresent(t, d)
    \/ reset
    \/ \E config \in ConfigIds : setActiveVrrConfiguration(config)
    \/ \E isEnabled \in BOOLEAN : setEnable(isEnabled)
    \/ \E configs \in ConfigTables : setVrrConfigurations(configs)
    \/ stopThread
    \/ onPresent
    \/ \E t \in Timestamps, d \in FrameIntervals : setExpectedPresentTime(t, d)
    \/ dumpEventQueue

\* threadBody
Worker(fifo) ==
    \/ WorkerStart
    \/ WorkerLoop(fifo)
    \/ WorkerWakeDisabled(fifo)
    \/ WorkerWakeEmpty(fifo)
    \/ WorkerWakeSignalled
    \/ WorkerTimeout
    \/ WorkerAfterTimeout(fifo)
    \/ SpuriousWakeup

Next == Calls \/ Worker(FALSE) \/ Tick

Spec == Init /\ [][Next]_vars

\* The runs of Spec in which events of one instant are dispatched in the
\* order they were posted.
NextFifo == Calls \/ Worker(TRUE) \/ Tick

SpecFifo == Init /\ [][NextFifo]_vars

\* The steps threadBody takes on its own: every step of the worker but the
\* spurious return of a condition wait, which nothing obliges to happen.
WorkerRuns ==
    \/ WorkerStart
    \/ WorkerLoop(FALSE)
    \/ WorkerWakeDisabled(FALSE)
    \/ WorkerWakeEmpty(FALSE)
    \/ WorkerWakeSignalled
    \/ WorkerTimeout
    \/ WorkerAfterTimeout(FALSE)

\* The runs of Spec in which the worker thread (SCHED_FIFO, line 315) is
\* scheduled whenever it can take a step, and the clock keeps running.
SpecLive == Spec /\ WF_vars(WorkerRuns) /\ WF_vars(Tick)

-----------------------------------------------------------------------------
(* The statistics: the comparisons a std::map<DisplayPresentProfile, ...>   *)
(* makes of its keys, and the addition of a record to a value.  The        *)
(* controller stands still.                                                *)

ControllerAtRest ==
    /\ mState = "Disable"
    /\ mEnabled = FALSE
    /\ mThreadExit = FALSE
    /\ mVrrConfigs = EmptyTable
    /\ mVrrActiveConfig = kNoConfig
    /\ mEventQueue = <<>>
    /\ mPendingFramesToInsert = 0
    /\ mRecord = RecordClear(0)
    /\ now = 0
    /\ pc = "start"
    /\ waitUntil = 0
    /\ notified = FALSE
    /\ calls = 0
    /\ last = NoStep
    /\ burstCut = "none"
    /\ burstWrites = 0

\* Either three keys are drawn, to be compared, or a record, to be added to
\* (so that the states are the sum of the two, not their product).
InitStatistic ==
    /\ ControllerAtRest
    /\ less = NoCompare
    /\ added = NoAdd
    /\ \/ /\ lhs \in DisplayStatuses
          /\ mid \in DisplayStatuses
          /\ rhs \in DisplayStatuses
          /\ record = DefaultDisplayPresentRecord
       \/ /\ lhs = DefaultDisplayStatus
          /\ mid = DefaultDisplayStatus
          /\ rhs = DefaultDisplayStatus
          /\ record \in DisplayPresentRecords

ControllerVars ==
    <<mState, mEnabled, mThreadExit, mVrrConfigs, mVrrActiveConfig, mEventQueue,
      mPendingFramesToInsert, mRecord, now, pc, waitUntil, notified, calls, last,
      burstCut, burstWrites>>

\* The keys are compared with each other, as a map does to place them.
Compare ==
    /\ less = NoCompare
    /\ lhs \in DisplayStatuses
    /\ less' = [done |-> TRUE,
                aa |-> StatusLess(lhs, lhs),
                ab |-> StatusLess(lhs, mid), ba |-> StatusLess(mid, lhs),
                bc |-> StatusLess(mid, rhs), cb |-> StatusLess(rhs, mid),
                ac |-> StatusLess(lhs, rhs), ca |-> StatusLess(rhs, lhs),
                eqab |-> StatusEqual(lhs, mid)]
    /\ UNCHANGED <<ControllerVars, lhs, mid, rhs, record, added>>

\* record += other
Accumulate(other) ==
    /\ lhs = DefaultDisplayStatus
    /\ record.mCount + other.mCount <= MaxCount
    /\ record' = RecordPlus(record, other)
    /\ added' = [done |-> TRUE, lhs |-> record, rhs |-> other]
    /\ UNCHANGED <<ControllerVars, lhs, mid, rhs, less>>

NextStatistic ==
    \/ Compare
    \/ \E other \in DisplayPresentRecords : Accumulate(other)

SpecStatistic == InitStatistic /\ [][NextStatistic]_vars

-----------------------------------------------------------------------------
(* Properties *)

Dispatched(type) == last.op = "dispatch" /\ last.event.type = type

\* C1: in every reachable state the event queue holds at most one
\* RenderingTimeout event.
C1_AtMostOneRenderingTimeout == Count(mEventQueue, kRenderingTimeout) <= 1

\* A state right after an entry point replaced the RenderingTimeout of a
\* queue that holds other events too.
C1_Witness ==
    /\ last.op \in {"onPresent", "setActiveVrrConfiguration"}
    /\ last.ok
    /\ last.state = "Rendering"
    /\ Count(mEventQueue, kRenderingTimeout) = 1
    /\ Len(mEventQueue) >= 3

\* C2: in every reachable state, whatever timeout and min frame interval
\* are configured, the event queue holds at most one NextFrameInsertion.
C2_AtMostOneNextFrameInsertion == Count(mEventQueue, kNextFrameInsertion) <= 1

\* C3: the worker never pops and dispatches an event while the controller
\* state is Disable.
C3_NoDispatchWhileDisable == ~(last.op = "dispatch" /\ last.state = "Disable")
\* C4: mPendingFramesToInsert is never negative; a step lowers it only by
\* a frame insertion that wrote the panel node, and then by exactly 1; a
\* step raises it only by the burst start of handleHibernate (the counter is
\* set to kNumFramesToInsert, less the frame inserted at once).
C4_PendingFrames ==
    /\ [](mPendingFramesToInsert >= 0)
    /\ [][/\ mPendingFramesToInsert' < mPendingFramesToInsert =>
               /\ mPendingFramesToInsert' = mPendingFramesToInsert - 1
               /\ last'.op = "dispatch"
               /\ last'.write = "ok"
          /\ mPendingFramesToInsert' > mPendingFramesToInsert =>
               /\ last'.op = "dispatch"
               /\ last'.event.type = kRenderingTimeout
               /\ last'.state = "Rendering"
               /\ mPendingFramesToInsert' \in
                      {kNumFramesToInsert - 1, kNumFramesToInsert}]_vars

\* The second frame of a burst was just inserted, under a config of the
\* table: the counter went 1 -> 0.
C4_Witness ==
    /\ Dispatched(kNextFrameInsertion)
    /\ last.state = "Hibernate"
    /\ last.write = "ok"
    /\ mPendingFramesToInsert = 0
    /\ mVrrActiveConfig \in DOMAIN mVrrConfigs
    /\ mVrrConfigs[mVrrActiveConfig] \in VrrConfigValues

\* C5: a frame insertion whose panel write fails still takes one frame off
\* mPendingFramesToInsert (off kNumFramesToInsert at a burst start).
C5_FailedWriteDecrements ==
    [][(last'.op = "dispatch" /\ last'.write = "fail") =>
          mPendingFramesToInsert' =
              (IF last'.event.type = kRenderingTimeout
               THEN kNumFramesToInsert ELSE mPendingFramesToInsert) - 1]_vars

\* C5, amended: a frame insertion whose panel write fails leaves
\* mPendingFramesToInsert where it was (at kNumFramesToInsert at a burst
\* start) and posts no NextFrameInsertion, so the write is not tried again.
C5_FailedWriteKeepsCounter ==
    [][(last'.op = "dispatch" /\ last'.write = "fail") =>
          /\ mPendingFramesToInsert' =
                 (IF last'.event.type = kRenderingTimeout
                  THEN kNumFramesToInsert ELSE mPendingFramesToInsert)
          /\ Count(mEventQueue', kNextFrameInsertion)
                 <= Count(mEventQueue, kNextFrameInsertion)]_vars

\* The write of the second frame of a burst failed.
C5_Witness ==
    /\ Dispatched(kNextFrameInsertion)
    /\ last.state = "Hibernate"
    /\ last.write = "fail"
    /\ mPendingFramesToInsert = 1
    /\ Count(mEventQueue, kNextFrameInsertion) = 0

\* C6: right after an onPresent that found a pending descriptor: the state
\* is Rendering and no HibernateTimeout is queued if the state was
\* Hibernate; no NextFrameInsertion is queued; exactly one RenderingTimeout
\* is, due at now + TimeoutNs of the active config; the descriptor is gone.
C6_OnPresent ==
    (last.op = "onPresent" /\ last.ok) =>
        /\ last.state = "Hibernate" =>
               /\ mState = "Rendering"
               /\ Count(mEventQueue, kHibernateTimeout) = 0
        /\ Count(mEventQueue, kNextFrameInsertion) = 0
        /\ Count(mEventQueue, kRenderingTimeout) = 1
        /\ \A i \in 1..Len(mEventQueue) :
               mEventQueue[i].type = kRenderingTimeout =>
                   mEventQueue[i].when = now + mVrrConfigs[mVrrActiveConfig].TimeoutNs
        /\ mRecord.mPendingCurrentPresentTime = NoPresent

\* A present that came during hibernation, in the middle of a burst.
C6_Witness ==
    /\ last.op = "onPresent"
    /\ last.ok
    /\ last.state = "Hibernate"
    /\ mPendingFramesToInsert = 1
    /\ mVrrActiveConfig \in ConfigIds

\* C7: right after reset() the event queue is empty and neither the pending
\* present descriptor nor the expected-present hint is set; a reset() that
\* directly follows a reset() changes nothing.
C7_Reset ==
    /\ [](last.op = "reset" =>
             /\ mEventQueue = <<>>
             /\ mRecord.mPendingCurrentPresentTime = NoPresent
             /\ mRecord.mNextExpectedPresentTime = NoPresent)
    /\ [][(last.op = "reset" /\ last'.op = "reset") =>
              UNCHANGED <<fields, now, pc, waitUntil, notified>>]_vars

\* A reset() repeated at once, on a controller that was hibernating.
C7_Witness ==
    /\ last.op = "reset"
    /\ last.repeat
    /\ mState = "Hibernate"
    /\ mPendingFramesToInsert = 1

\* C8: setActiveVrrConfiguration with an id the table does not hold leaves
\* state, active config, event queue and mPendingFramesToInsert as they were.
C8_UnknownConfig ==
    [][\A config \in ConfigIds :
          (setActiveVrrConfiguration(config) /\ config \notin DOMAIN mVrrConfigs) =>
              UNCHANGED <<mState, mVrrActiveConfig, mEventQueue,
                          mPendingFramesToInsert>>]_vars

\* An unknown id was refused while the controller hibernated with events
\* queued.
C8_Witness ==
    /\ last.op = "setActiveVrrConfiguration"
    /\ ~last.ok
    /\ mState = "Hibernate"
    /\ Len(mEventQueue) >= 2

\* C9: onPresent without a pending present descriptor changes neither the
\* state nor the event queue nor the record (history, hint, descriptor).
C9_PresentWithoutDescriptor ==
    [][(onPresent /\ mRecord.mPendingCurrentPresentTime = NoPresent) =>
          UNCHANGED <<mState, mEventQueue, mRecord>>]_vars

\* Such a present while a RenderingTimeout was outstanding.
C9_Witness ==
    /\ last.op = "onPresent"
    /\ ~last.ok
    /\ mState = "Rendering"
    /\ Count(mEventQueue, kRenderingTimeout) = 1

\* C10: once setEnable(false) was called in Hibernate with a
\* NextFrameInsertion queued, the queue is empty when the call returns, no
\* step writes the panel node while the controller stays disabled, and none
\* does after a setEnable(true) that no other call follows.
C10_DisableMidBurst ==
    burstCut # "none" =>
        /\ last.write = "none"
        /\ (burstCut = "disabled" /\ last.op = "setEnable") => mEventQueue = <<>>

\* C11: no step takes mState from Disable straight to Hibernate, and no step
\* takes it from Hibernate to Disable unless it is stopThread or setEnable.
C11_NoDirectTransition ==
    [][/\ mState = "Disable" => mState' # "Hibernate"
       /\ (mState = "Hibernate" /\ mState' = "Disable") =>
              last'.op \in {"stopThread", "setEnable"}]_vars

\* stopThread took a hibernating controller to Disable.
C11_Witness ==
    /\ last.op = "stopThread"
    /\ last.state = "Hibernate"
    /\ mState = "Disable"
    /\ mEventQueue # <<>>
\* C12: whenever the worker pops an event for dispatch, no event of the
\* queue is due strictly earlier than the popped one, whatever
\* dropEventLocked(type) and dumpEventQueueLocked rebuilt before.
C12_EarliestFirst ==
    [][last'.op = "dispatch" =>
          \A i \in 1..Len(mEventQueue) : last'.event.when <= mEventQueue[i].when]_vars

\* An event was dispatched ahead of a HibernateTimeout and a
\* RenderingTimeout that are due later than it.
C12_Witness ==
    /\ Dispatched(kNotifyExpectedPresentConfig)
    /\ Len(mEventQueue) >= 2
    /\ \E i \in 1..Len(mEventQueue) :
           /\ mEventQueue[i].when > last.event.when
           /\ mEventQueue[i].type = kHibernateTimeout
    /\ \E i \in 1..Len(mEventQueue) :
           /\ mEventQueue[i].when > last.event.when
           /\ mEventQueue[i].type = kRenderingTimeout
\* C13: of the queued events of one instant the worker dispatches the one
\* posted first (the queue is kept by time, then by posting order, so that
\* event is its head).
C13_FifoWithinInstant ==
    [][last'.op = "dispatch" => last'.event = Head(mEventQueue)]_vars
\* C14: the worker never leaves its loop by the break of line 340 (event
\* queue empty after the wait) unless stopThread was called.
C14_EmptyExitUnreachable == last.op = "breakEmpty" => mThreadExit
\* C15: the state is Disable when stopThread returns.  stopThread assigns
\* kDisable under the mutex and returns after the notify_all that follows
\* the unlock, so the worker may run in between: a dispatch that directly
\* follows the locked part of stopThread leaves mState at Disable.
C15_DisableWhenStopReturns ==
    [][(last.op = "stopThread" /\ last'.op = "dispatch") => mState' = "Disable"]_vars
\* What the dispatch of a RenderingTimeout in Rendering does when the panel
\* write succeeds: one frame is written, one NextFrameInsertion is posted at
\* now + minFrameIntervalNs of the active config, one HibernateTimeout is
\* posted, and the state becomes Hibernate.
BurstStart ==
    [][(/\ last'.op = "dispatch"
        /\ last'.event.type = kRenderingTimeout
        /\ last'.state = "Rendering"
        /\ last'.write = "ok") =>
          /\ mState' = "Hibernate"
          /\ burstWrites' = 1
          /\ mPendingFramesToInsert' = kNumFramesToInsert - 1
          /\ Count(mEventQueue', kNextFrameInsertion)
                 = Count(mEventQueue, kNextFrameInsertion) + 1
          /\ \E i \in 1..Len(mEventQueue') :
                 mEventQueue'[i] =
                     [type |-> kNextFrameInsertion,
                      when |-> now + mVrrConfigs'[mVrrActiveConfig].minFrameIntervalNs]
          /\ Count(mEventQueue', kHibernateTimeout)
                 = Count(mEventQueue, kHibernateTimeout) + 1
          /\ \E i \in 1..Len(mEventQueue') :
                 mEventQueue'[i] = [type |-> kHibernateTimeout,
                                   when |-> now + kDefaultWakeUpTimeInPowerSaving]]_vars

\* C16: a RenderingTimeout dispatched in Rendering with the panel writes
\* succeeding starts a burst as BurstStart says; with no entry point called
\* since, the burst never has more than kNumFramesToInsert writes, and once
\* no NextFrameInsertion is queued it has had exactly that many and
\* mPendingFramesToInsert is 0.
C16_Burst ==
    /\ BurstStart
    /\ [](burstWrites > 0 =>
             /\ burstWrites <= kNumFramesToInsert
             /\ Count(mEventQueue, kNextFrameInsertion) = 0 =>
                    /\ burstWrites = kNumFramesToInsert
                    /\ mPendingFramesToInsert = 0)

\* C16, amended: the same, for a burst during which the controller stays
\* in Hibernate.
C16_BurstInHibernate ==
    /\ BurstStart
    /\ [](burstWrites > 0 =>
             /\ burstWrites <= kNumFramesToInsert
             /\ (mState = "Hibernate" /\ Count(mEventQueue, kNextFrameInsertion) = 0) =>
                    /\ burstWrites = kNumFramesToInsert
                    /\ mPendingFramesToInsert = 0)

\* The second frame of a burst was just written, under a config of the
\* table and with no entry point called since the burst started.
C16_Witness ==
    /\ Dispatched(kNextFrameInsertion)
    /\ last.write = "ok"
    /\ burstWrites = kNumFramesToInsert
    /\ mState = "Hibernate"
    /\ mPendingFramesToInsert = 0
    /\ Count(mEventQueue, kNextFrameInsertion) = 0
    /\ mVrrActiveConfig \in DOMAIN mVrrConfigs
    /\ mVrrConfigs[mVrrActiveConfig] \in VrrConfigValues
\* C17: DisplayStatus::operator< is a strict weak ordering of the statuses
\* of every power mode, config id and brightness mode: it is irreflexive and
\* transitive; 'neither lhs < mid nor mid < lhs' is transitive too and holds
\* exactly when operator== does; and it holds of any two statuses that are
\* off (Off or DozeSuspend).
C17_StrictWeakOrder ==
    less.done =>
        /\ ~less.aa
        /\ (less.ab /\ less.bc) => less.ac
        /\ (~less.ab /\ ~less.ba /\ ~less.bc /\ ~less.cb) => (~less.ac /\ ~less.ca)
        /\ (~less.ab /\ ~less.ba) <=> less.eqab
        /\ (isOff(lhs) /\ isOff(mid)) => (~less.ab /\ ~less.ba)
\* C18: after record += other the count is the sum of the two counts, the
\* timestamp the later of the two, and the flag the disjunction of the two
\* flags.
C18_PlusOrsFlag ==
    added.done =>
        /\ record.mCount = added.lhs.mCount + added.rhs.mCount
        /\ record.mLastTimeStampNs =
               Max(added.lhs.mLastTimeStampNs, added.rhs.mLastTimeStampNs)
        /\ record.mUpdated = (added.lhs.mUpdated \/ added.rhs.mUpdated)

\* C18, amended: after record += other the count is the sum of the two
\* counts, the timestamp the later of the two, and the flag is set, whatever
\* the two flags were.
C18_PlusSetsFlag ==
    added.done =>
        /\ record.mCount = added.lhs.mCount + added.rhs.mCount
        /\ record.mLastTimeStampNs =
               Max(added.lhs.mLastTimeStampNs, added.rhs.mLastTimeStampNs)
        /\ record.mUpdated

\* Two records with counts, the later timestamp on the right, neither
\* flagged, were added.
C18_Witness ==
    /\ added.done
    /\ ~added.lhs.mUpdated
    /\ ~added.rhs.mUpdated
    /\ added.lhs.mCount > 0
    /\ added.rhs.mCount > 0
    /\ added.lhs.mLastTimeStampNs < added.rhs.mLastTimeStampNs
\* C19: the worker dispatches an event only when the event is due: the time
\* of the event it popped is not after the clock.
C19_DispatchedWhenDue == last.op = "dispatch" => last.event.when <= now
\* C20: the worker never dispatches a HibernateTimeout while the state is
\* Rendering, nor a RenderingTimeout while the state is Hibernate.
C20_NoInvariantViolation ==
    last.op = "dispatch" =>
        /\ ~(last.state = "Rendering" /\ last.event.type = kHibernateTimeout)
        /\ ~(last.state = "Hibernate" /\ last.event.type = kRenderingTimeout)


\* C21: in every reachable state the event queue holds at most one
\* HibernateTimeout event, so Rendering -> Hibernate -> Rendering cycles do
\* not multiply the self-reposting event.
C21_AtMostOneHibernateTimeout == Count(mEventQueue, kHibernateTimeout) <= 1

\* The controller is enabled, not stopped and rendering.
RenderingActive == mEnabled /\ ~mThreadExit /\ mState = "Rendering"

\* Nothing more is called (so no further present comes), the worker thread
\* runs its loop, and a queued RenderingTimeout falls due before the clock
\* of the model stops.
NoFurtherCalls ==
    /\ calls = MaxCalls
    /\ pc \notin {"start", "exited"}
    /\ \A i \in 1..Len(mEventQueue) :
           mEventQueue[i].type = kRenderingTimeout => mEventQueue[i].when <= MaxTime

\* C22: whenever the controller is enabled, not stopped and in state
\* Rendering, a RenderingTimeout is outstanding in the event queue, and with
\* no further calls the worker eventually moves the controller to Hibernate.
C22_RenderingTimesOut ==
    /\ [](RenderingActive => Count(mEventQueue, kRenderingTimeout) >= 1)
    /\ (RenderingActive /\ NoFurtherCalls) ~> (mState = "Hibernate")

====
